---- MODULE Spec2Model ----
(***************************************************************************)
(* count-loc: the logger (logger.go), the result printers (output file)    *)
(* and the aggregation of per-file records described by the design.        *)
(*                                                                         *)
(* Several specifications share the variables below; each one drives one   *)
(* part of the program and leaves the other parts at rest.                 *)
(***************************************************************************)
EXTENDS Integers, Sequences, FiniteSets, TLC

VARIABLES
    \* Logger (logger.go:28-35)
    level,        \* Logger.level
    errorCount,   \* Logger.errorCount
    warnCount,    \* Logger.warnCount
    loggerOut,    \* the writer behind Logger.logger (changed by SetOutput)
    written,      \* every Printf so far, in order: which log.Logger, which writer, what text
    \* the caller of the logger
    steps,        \* calls made so far
    failures,     \* LogFileError / LogDirectoryError calls made so far
    failuresAbove, \* ... of which made while level > LogLevelWarn
    lastCall,     \* the name of the latest call
    \* workers calling Logger.Warn / Logger.Error concurrently
    mu,           \* Logger.mu: 0 when free, else the worker holding it
    pc,           \* where each worker is in its current call
    todo,         \* the calls each worker has still to make
    reg,          \* each worker's register during count++
    issued,       \* how many Warn and Error calls the workers were given
    \* PrintErrors
    errors,       \* the errors []error argument
    printed,      \* the lines PrintErrors wrote to standard output
    printCalled,  \* whether PrintErrors has run
    \* sortLanguagesByCode and the printers that call it
    sortStats,    \* the langStats map: language -> *LanguageStats
    runs,         \* per rendering: the map iteration order met, the sorted slice, the rows
    \* FormatNumber
    fmtN,         \* the argument n
    fmtResult,    \* the string returned, as a sequence of characters
    fmtCalled,    \* whether FormatNumber has run
    \* the scan: worker pool and aggregator (design sections 4.2-4.5 and 5)
    files,        \* the files the traversal found: language and lines of each
    poolSize,     \* the number of workers of this scan
    queue,        \* the shared work queue: indices into files
    apc,          \* where each worker is
    held,         \* the FileRecord each worker owns
    snap,         \* the LanguageStats values each worker read under the lock
    aggMu,        \* the aggregator's lock: 0 when free, else its holder
    langStats,    \* language name -> LanguageStats
    total         \* the grand-total LanguageStats

logVars == <<level, errorCount, warnCount, loggerOut, written>>
callerVars == <<steps, failures, failuresAbove, lastCall>>
concVars == <<mu, pc, todo, reg, issued>>
printVars == <<errors, printed, printCalled>>
sortVars == <<sortStats, runs>>
fmtVars == <<fmtN, fmtResult, fmtCalled>>
outputVars == <<printVars, sortVars, fmtVars>>
aggVars == <<files, poolSize, queue, apc, held, snap, aggMu, langStats, total>>
vars == <<logVars, callerVars, concVars, outputVars, aggVars>>

----------------------------------------------------------------------------
\* Bounds of the model.
MaxSteps == 4
NumWorkers == 2
MaxCallsPerWorker == 1
MaxErrors == 12
NumLangs == 3
MaxCodeLines == 2
MaxDigits == 7
SmallNumbers == 1100
NumFiles == 2
MaxPoolSize == 3

----------------------------------------------------------------------------
\* LogLevel (logger.go:14-25)
LogLevelDebug == 0
LogLevelInfo == 1
LogLevelWarn == 2
LogLevelError == 3
LogLevelSilent == 4
LogLevels == {LogLevelDebug, LogLevelInfo, LogLevelWarn, LogLevelError, LogLevelSilent}

\* The writers a Logger can be given; the error log of the default logger
\* writes to os.Stderr (logger.go:41).
OutWriters == {"stdout", "buf"}
ErrWriter == "stderr"

\* The error values handed to LogFileError / LogDirectoryError: a bare errno
\* or sentinel, an *os.PathError around one, or this package's
\* *PermissionError around one (logger.go:183-198).
ErrValues ==
    { [type |-> "bare", cause |-> "ErrPermission"],
      [type |-> "PathError", cause |-> "EACCES"],
      [type |-> "PathError", cause |-> "ENOENT"],
      [type |-> "PermissionError", cause |-> "ErrPermission"] }

\* The formatted messages of the direct Debug / Info / Warn / Error calls.
Texts == {<<"%s">>}

\* os.IsPermission: unwraps *PathError, *LinkError and *SyscallError only, then
\* compares with ErrPermission / EACCES / EPERM.  Any other error type, this
\* package's *PermissionError included (it has no Is or Unwrap method), is its
\* own underlying error and is not a permission error.
IsPermissionError(err) ==
    /\ err.type \in {"bare", "PathError"}
    /\ err.cause \in {"ErrPermission", "EACCES", "EPERM"}

\* One Printf on l.logger / l.errorLog.
LoggerPrintf(tag, text) ==
    Append(written, [via |-> "logger", to |-> loggerOut, tag |-> tag, text |-> text])
ErrorLogPrintf(tag, text) ==
    Append(written, [via |-> "errorLog", to |-> ErrWriter, tag |-> tag, text |-> text])

\* Logger.SetLevel
SetLevel(v) ==
    /\ level' = v
    /\ UNCHANGED <<errorCount, warnCount, loggerOut, written>>

\* Logger.SetOutput
SetOutput(w) ==
    /\ loggerOut' = w
    /\ UNCHANGED <<level, errorCount, warnCount, written>>

\* Logger.Debug
Debug(text) ==
    /\ written' = IF level <= LogLevelDebug THEN LoggerPrintf("[DEBUG]", text) ELSE written
    /\ UNCHANGED <<level, errorCount, warnCount, loggerOut>>

\* Logger.Info
Info(text) ==
    /\ written' = IF level <= LogLevelInfo THEN LoggerPrintf("[INFO]", text) ELSE written
    /\ UNCHANGED <<level, errorCount, warnCount, loggerOut>>

\* Warn with the guard of Info: warnings dropped at LogLevelWarn.
WarnGuardInfo(text) ==
    /\ warnCount' = IF level <= LogLevelInfo THEN warnCount + 1 ELSE warnCount
    /\ written' = IF level <= LogLevelInfo THEN LoggerPrintf("[WARN]", text) ELSE written
    /\ UNCHANGED <<level, errorCount, loggerOut>>

\* Logger.Warn
Warn(text) ==
    /\ warnCount' = IF level <= LogLevelWarn THEN warnCount + 1 ELSE warnCount
    /\ written' = IF level <= LogLevelWarn THEN LoggerPrintf("[WARN]", text) ELSE written
    /\ UNCHANGED <<level, errorCount, loggerOut>>

\* Error with a strict comparison: errors dropped at LogLevelError.
ErrorGuardStrict(text) ==
    /\ errorCount' = IF level < LogLevelError THEN errorCount + 1 ELSE errorCount
    /\ written' = IF level < LogLevelError THEN ErrorLogPrintf("[ERROR]", text) ELSE written
    /\ UNCHANGED <<level, warnCount, loggerOut>>

\* Logger.Error
Error(text) ==
    /\ errorCount' = IF level <= LogLevelError THEN errorCount + 1 ELSE errorCount
    /\ written' = IF level <= LogLevelError THEN ErrorLogPrintf("[ERROR]", text) ELSE written
    /\ UNCHANGED <<level, warnCount, loggerOut>>

\* LogFileError (through LogWarn / LogError on the default logger)
LogFileError(err) ==
    IF IsPermissionError(err)
        THEN Warn(<<"Permission denied: %s">>)
        ELSE Error(<<"Failed to process file %s: %v", err>>)

\* LogDirectoryError
LogDirectoryError(err) ==
    IF IsPermissionError(err)
        THEN Warn(<<"Permission denied for directory: %s">>)
        ELSE Error(<<"Failed to process directory %s: %v", err>>)

----------------------------------------------------------------------------
\* NewLogger(level, out, errOut); the default logger is NewLogger(LogLevelInfo,
\* os.Stdout, os.Stderr).
NewLogger(v, out) ==
    /\ level = v
    /\ loggerOut = out
    /\ errorCount = 0
    /\ warnCount = 0
    /\ written = <<>>

CallerInit ==
    /\ steps = 0
    /\ failures = 0
    /\ failuresAbove = 0
    /\ lastCall = "NewLogger"

\* No concurrent workers.
ConcIdle ==
    /\ mu = 0
    /\ pc = <<>>
    /\ todo = <<>>
    /\ reg = <<>>
    /\ issued = <<>>

\* No output function running.
PrintIdle ==
    /\ errors = <<>>
    /\ printed = <<>>
    /\ printCalled = FALSE

SortIdle ==
    /\ sortStats = <<>>
    /\ runs = <<>>

FmtIdle ==
    /\ fmtN = 0
    /\ fmtResult = <<>>
    /\ fmtCalled = FALSE

\* No scan running.
AggIdle ==
    /\ files = <<>>
    /\ poolSize = 0
    /\ queue = <<>>
    /\ apc = <<>>
    /\ held = <<>>
    /\ snap = <<>>
    /\ aggMu = 0
    /\ langStats = <<>>
    /\ total = <<>>

FailureCalls == {"LogFileError", "LogDirectoryError"}

\* One more call by the program; a failure report is counted as such.
Call(op) ==
    /\ steps < MaxSteps
    /\ steps' = steps + 1
    /\ lastCall' = op
    /\ failures' = IF op \in FailureCalls THEN failures + 1 ELSE failures
    /\ failuresAbove' = IF op \in FailureCalls /\ level > LogLevelWarn
                            THEN failuresAbove + 1 ELSE failuresAbove
    /\ UNCHANGED <<concVars, outputVars, aggVars>>

CallSetLevel == \E v \in LogLevels : SetLevel(v) /\ Call("SetLevel")
CallSetOutput == \E w \in OutWriters : SetOutput(w) /\ Call("SetOutput")
CallDebug == \E t \in Texts : Debug(t) /\ Call("Debug")
CallInfo == \E t \in Texts : Info(t) /\ Call("Info")
CallWarn == \E t \in Texts : Warn(t) /\ Call("Warn")
CallError == \E t \in Texts : Error(t) /\ Call("Error")
CallLogFileError == \E e \in ErrValues : LogFileError(e) /\ Call("LogFileError")
CallLogDirectoryError == \E e \in ErrValues : LogDirectoryError(e) /\ Call("LogDirectoryError")

\* Any sequence of calls on a logger built with any level.
InitLog ==
    /\ \E v \in LogLevels : NewLogger(v, "stdout")
    /\ CallerInit
    /\ ConcIdle
    /\ PrintIdle /\ SortIdle /\ FmtIdle /\ AggIdle

NextLog ==
    \/ CallSetLevel
    \/ CallSetOutput
    \/ CallDebug
    \/ CallInfo
    \/ CallWarn
    \/ CallError
    \/ CallLogFileError
    \/ CallLogDirectoryError

SpecLog == InitLog /\ [][NextLog]_vars

\* The default logger receiving only failure reports and level changes.
InitTally ==
    /\ NewLogger(LogLevelInfo, "stdout")
    /\ CallerInit
    /\ ConcIdle
    /\ PrintIdle /\ SortIdle /\ FmtIdle /\ AggIdle

NextTally ==
    \/ CallSetLevel
    \/ CallLogFileError
    \/ CallLogDirectoryError

SpecTally == InitTally /\ [][NextTally]_vars

----------------------------------------------------------------------------
\* Logger.Warn and Logger.Error called by concurrent workers, statement by
\* statement: l.mu.Lock(); the test of l.level; the load and the store of
\* l.warnCount++ / l.errorCount++; the Printf; the deferred l.mu.Unlock().

Workers == 1..NumWorkers
Methods == {"Warn", "Error"}

RECURSIVE SeqsUpTo(_, _)
SeqsUpTo(S, n) ==
    IF n = 0 THEN {<<>>}
    ELSE LET shorter == SeqsUpTo(S, n - 1)
         IN  shorter \cup {Append(q, x) : q \in shorter, x \in S}

RECURSIVE CountOf(_, _)
CountOf(x, q) ==
    IF q = <<>> THEN 0
    ELSE (IF Head(q) = x THEN 1 ELSE 0) + CountOf(x, Tail(q))

RECURSIVE SumOver(_, _)
SumOver(f, S) ==
    IF S = {} THEN 0
    ELSE LET x == CHOOSE y \in S : TRUE
         IN  f[x] + SumOver(f, S \ {x})

Current(w) == Head(todo[w])
Severity(m) == IF m = "Warn" THEN LogLevelWarn ELSE LogLevelError
Counter(m) == IF m = "Warn" THEN warnCount ELSE errorCount

\* Lock that does not wait for the holder to release.
LockNoWait(w) ==
    /\ pc[w] = "idle"
    /\ todo[w] # <<>>
    /\ mu' = w
    /\ pc' = [pc EXCEPT ![w] = "locked"]
    /\ UNCHANGED <<todo, reg, issued, logVars, callerVars, outputVars, aggVars>>

\* l.mu.Lock()
Lock(w) ==
    /\ pc[w] = "idle"
    /\ todo[w] # <<>>
    /\ mu = 0
    /\ mu' = w
    /\ pc' = [pc EXCEPT ![w] = "locked"]
    /\ UNCHANGED <<todo, reg, issued, logVars, callerVars, outputVars, aggVars>>

\* if l.level <= LogLevelWarn / LogLevelError
CheckLevel(w) ==
    /\ pc[w] = "locked"
    /\ pc' = [pc EXCEPT ![w] = IF level <= Severity(Current(w)) THEN "load" ELSE "unlock"]
    /\ UNCHANGED <<mu, todo, reg, issued, logVars, callerVars, outputVars, aggVars>>

\* count++, the load
LoadCount(w) ==
    /\ pc[w] = "load"
    /\ reg' = [reg EXCEPT ![w] = Counter(Current(w))]
    /\ pc' = [pc EXCEPT ![w] = "store"]
    /\ UNCHANGED <<mu, todo, issued, logVars, callerVars, outputVars, aggVars>>

\* count++, the store
StoreCount(w) ==
    /\ pc[w] = "store"
    /\ IF Current(w) = "Warn"
          THEN warnCount' = reg[w] + 1 /\ UNCHANGED errorCount
          ELSE errorCount' = reg[w] + 1 /\ UNCHANGED warnCount
    /\ pc' = [pc EXCEPT ![w] = "print"]
    /\ UNCHANGED <<mu, todo, reg, issued, level, loggerOut, written, callerVars, outputVars, aggVars>>

\* l.logger.Printf / l.errorLog.Printf
Printf(w) ==
    /\ pc[w] = "print"
    /\ written' = IF Current(w) = "Warn"
                     THEN LoggerPrintf("[WARN]", <<"%s">>)
                     ELSE ErrorLogPrintf("[ERROR]", <<"%s">>)
    /\ pc' = [pc EXCEPT ![w] = "unlock"]
    /\ UNCHANGED <<mu, todo, reg, issued, level, loggerOut, errorCount, warnCount, callerVars, outputVars, aggVars>>

\* defer l.mu.Unlock(); the call returns
Unlock(w) ==
    /\ pc[w] = "unlock"
    /\ mu' = 0
    /\ todo' = [todo EXCEPT ![w] = Tail(todo[w])]
    /\ pc' = [pc EXCEPT ![w] = "idle"]
    /\ UNCHANGED <<reg, issued, logVars, callerVars, outputVars, aggVars>>

InitConc ==
    /\ \E v \in {LogLevelDebug, LogLevelInfo, LogLevelWarn} : NewLogger(v, "stdout")
    /\ CallerInit
    /\ mu = 0
    /\ todo \in [Workers -> SeqsUpTo(Methods, MaxCallsPerWorker)]
    /\ pc = [w \in Workers |-> "idle"]
    /\ reg = [w \in Workers |-> 0]
    /\ issued = [m \in Methods |-> SumOver([w \in Workers |-> CountOf(m, todo[w])], Workers)]
    /\ PrintIdle /\ SortIdle /\ FmtIdle /\ AggIdle

NextConc ==
    \/ \E w \in Workers : Lock(w)
    \/ \E w \in Workers : CheckLevel(w)
    \/ \E w \in Workers : LoadCount(w)
    \/ \E w \in Workers : StoreCount(w)
    \/ \E w \in Workers : Printf(w)
    \/ \E w \in Workers : Unlock(w)

SpecConc == InitConc /\ [][NextConc]_vars

----------------------------------------------------------------------------
\* PrintErrors: the lines written to standard output, one record per Printf /
\* Println.

ErrorItems == {"e1", "e2"}

HeaderLine == [kind |-> "header", text |-> "\nErrors encountered:"]
EntryLine(err) == [kind |-> "entry", text |-> <<"  - %v", err>>]
MoreLine(k) == [kind |-> "more", text |-> <<"  ... and %d more errors", k>>]
BlankLine == [kind |-> "blank", text |-> ""]

\* The range loop with the cut-off one element late.
RECURSIVE PrintErrorsLoopLate(_, _, _)
PrintErrorsLoopLate(errs, i, out) ==
    IF i >= Len(errs) THEN out
    ELSE IF i > 10 THEN Append(out, MoreLine(Len(errs) - 10))
    ELSE PrintErrorsLoopLate(errs, i + 1, Append(out, EntryLine(errs[i + 1])))

\* for i, err := range errors { ... }  (i counts from 0, as in the code)
RECURSIVE PrintErrorsLoop(_, _, _)
PrintErrorsLoop(errs, i, out) ==
    IF i >= Len(errs) THEN out
    ELSE IF i >= 10 THEN Append(out, MoreLine(Len(errs) - 10))
    ELSE PrintErrorsLoop(errs, i + 1, Append(out, EntryLine(errs[i + 1])))

PrintErrorsOutput(errs) ==
    IF Len(errs) = 0 THEN <<>>
    ELSE Append(PrintErrorsLoop(errs, 0, <<HeaderLine>>), BlankLine)

PrintErrors ==
    /\ ~printCalled
    /\ printed' = PrintErrorsOutput(errors)
    /\ printCalled' = TRUE
    /\ UNCHANGED <<errors, logVars, callerVars, concVars, sortVars, fmtVars, aggVars>>

InitPrint ==
    /\ errors \in SeqsUpTo(ErrorItems, MaxErrors)
    /\ printed = <<>>
    /\ printCalled = FALSE
    /\ NewLogger(LogLevelInfo, "stdout")
    /\ CallerInit /\ ConcIdle /\ SortIdle /\ FmtIdle /\ AggIdle

NextPrint == PrintErrors

SpecPrint == InitPrint /\ [][NextPrint]_vars

----------------------------------------------------------------------------
\* sortLanguagesByCode, called by PrintResults, PrintJSON and
\* PrintResultsFormatted.  The keys are collected in the order the range over
\* the map delivers them, which Go leaves unspecified and varies from one
\* range to the next; sort.Slice on fewer than 12 elements is an insertion
\* sort on the slice with the less function given.

LangNames == <<"C", "Go", "Python", "Rust", "Shell">>
Langs == {LangNames[i] : i \in 1..NumLangs}
Renderings == {1, 2}

LangStatsMaps ==
    UNION {[keys -> [CodeLines : 0..MaxCodeLines]] : keys \in SUBSET Langs}

\* The orders in which a range over a map with these keys can deliver them.
IterationOrders(keys) ==
    {o \in [1..Cardinality(keys) -> keys] : \A i, j \in DOMAIN o : o[i] = o[j] => i = j}

Swap(data, i, j) == [data EXCEPT ![i] = data[j], ![j] = data[i]]

\* The less function with the comparison reversed.
lessAscending(stats, a, b) == stats[a].CodeLines < stats[b].CodeLines

\* func(i, j int) bool { return langStats[langs[i]].CodeLines > langStats[langs[j]].CodeLines }
less(stats, a, b) == stats[a].CodeLines > stats[b].CodeLines

\* for j := i; j > a && less(j, j-1); j-- { swap(j, j-1) }
RECURSIVE InsertionInner(_, _, _)
InsertionInner(stats, data, j) ==
    IF j > 1 /\ less(stats, data[j], data[j - 1])
        THEN InsertionInner(stats, Swap(data, j, j - 1), j - 1)
        ELSE data

\* for i := a + 1; i < b; i++ { ... }
RECURSIVE InsertionSort(_, _, _)
InsertionSort(stats, data, i) ==
    IF i > Len(data) THEN data
    ELSE InsertionSort(stats, InsertionInner(stats, data, i), i + 1)

\* sortLanguagesByCode, given the order the range delivered the keys in
sortLanguagesByCode(stats, order) == InsertionSort(stats, order, 2)

\* The rows a printer writes, one per language of the sorted slice.
RenderRows(stats, sortedLangs) ==
    [i \in DOMAIN sortedLangs |-> <<sortedLangs[i], stats[sortedLangs[i]].CodeLines>>]

\* One rendering (PrintResults, PrintJSON or PrintResultsFormatted) of the map.
Render(k) ==
    /\ ~runs[k].done
    /\ \E order \in IterationOrders(DOMAIN sortStats) :
          LET sortedLangs == sortLanguagesByCode(sortStats, order)
          IN  runs' = [runs EXCEPT ![k] = [done |-> TRUE, order |-> order,
                                           langs |-> sortedLangs,
                                           rows |-> RenderRows(sortStats, sortedLangs)]]
    /\ UNCHANGED <<sortStats, logVars, callerVars, concVars, printVars, fmtVars, aggVars>>

InitSort ==
    /\ sortStats \in LangStatsMaps
    /\ runs = [k \in Renderings |-> [done |-> FALSE, order |-> <<>>, langs |-> <<>>, rows |-> <<>>]]
    /\ NewLogger(LogLevelInfo, "stdout")
    /\ CallerInit /\ ConcIdle /\ PrintIdle /\ FmtIdle /\ AggIdle

NextSort == \E k \in Renderings : Render(k)

SpecSort == InitSort /\ [][NextSort]_vars

----------------------------------------------------------------------------
\* FormatNumber.  A string is a sequence of one-character strings.

Digits == <<"0", "1", "2", "3", "4", "5", "6", "7", "8", "9">>

\* fmt.Sprintf("%d", n)
RECURSIVE SprintfD(_)
SprintfD(n) ==
    IF n < 0 THEN <<"-">> \o SprintfD(0 - n)
    ELSE IF n < 10 THEN <<Digits[n + 1]>>
    ELSE Append(SprintfD(n \div 10), Digits[(n % 10) + 1])

\* The loop without the i > 0 test.
RECURSIVE FormatLoopNoFirstTest(_, _, _)
FormatLoopNoFirstTest(str, i, result) ==
    IF i >= Len(str) THEN result
    ELSE LET sep == IF (Len(str) - i) % 3 = 0 THEN Append(result, ",") ELSE result
         IN  FormatLoopNoFirstTest(str, i + 1, Append(sep, str[i + 1]))

\* for i, char := range str { ... }  (i counts from 0, as in the code)
RECURSIVE FormatLoop(_, _, _)
FormatLoop(str, i, result) ==
    IF i >= Len(str) THEN result
    ELSE LET sep == IF i > 0 /\ (Len(str) - i) % 3 = 0 THEN Append(result, ",") ELSE result
         IN  FormatLoop(str, i + 1, Append(sep, str[i + 1]))

FormatNumber(n) ==
    IF n < 1000 THEN SprintfD(n)
    ELSE FormatLoop(SprintfD(n), 0, <<>>)

\* The numbers formatted: every number up to SmallNumbers, and the numbers of
\* up to MaxDigits digits written with the digits 0, 1 and 9.
RECURSIVE NumbersOfDigits(_)
NumbersOfDigits(k) ==
    IF k = 0 THEN {0}
    ELSE {10 * m + d : m \in NumbersOfDigits(k - 1), d \in {0, 1, 9}}

FormatInputs == (0..SmallNumbers) \cup NumbersOfDigits(MaxDigits)

CallFormatNumber ==
    /\ ~fmtCalled
    /\ fmtResult' = FormatNumber(fmtN)
    /\ fmtCalled' = TRUE
    /\ UNCHANGED <<fmtN, logVars, callerVars, concVars, printVars, sortVars, aggVars>>

InitFormat ==
    /\ fmtN \in FormatInputs
    /\ fmtResult = <<>>
    /\ fmtCalled = FALSE
    /\ NewLogger(LogLevelInfo, "stdout")
    /\ CallerInit /\ ConcIdle /\ PrintIdle /\ SortIdle /\ AggIdle

NextFormat == CallFormatNumber

SpecFormat == InitFormat /\ [][NextFormat]_vars

----------------------------------------------------------------------------
\* The scan.  The classifier, the file counter, the worker pool and the
\* aggregator live outside logger.go and the output file; they are modelled
\* from the design: a line is one of a few shapes, the classifier tags each line
\* carrying inBlockComment from line to line (4.2), the file counter turns a
\* file into a FileRecord (4.3), each worker pulls a file from the shared
\* queue (4.4) and merges its record into the language's stats and the grand
\* total under a single exclusive lock (4.5, 5).

ScanLanguages == {"C", "Go"}

\* What a physical line of a C-like file can look like.
\*   "code"             x := 1
\*   "lineComment"      // note
\*   "codeThenComment"  x := 1 // set x
\*   "blockOpen"        /* starts a comment that is not closed on this line
\*   "blockClose"       ends it */
\*   "stringWithMarker" x = "http://example.com"
FileContents ==
    { <<>>,
      <<"code", "blank", "stringWithMarker">>,
      <<"blockOpen", "blank", "blockClose", "codeThenComment", "lineComment", "blank">> }

ScanFiles == [language : ScanLanguages, lines : FileContents]

\* The classifier on one line: its tag and inBlockComment afterwards.
ClassifyLine(inBlockComment, line) ==
    IF inBlockComment
        THEN [tag |-> "Comment", inBlockComment |-> line # "blockClose"]
    ELSE IF line = "blank"
        THEN [tag |-> "Blank", inBlockComment |-> FALSE]
    ELSE IF line = "blockOpen"
        THEN [tag |-> "Comment", inBlockComment |-> TRUE]
    ELSE IF line \in {"lineComment", "codeThenComment"}
        THEN [tag |-> "Comment", inBlockComment |-> FALSE]
    ELSE [tag |-> "Code", inBlockComment |-> FALSE]

\* The tags of a file's lines, in order.
RECURSIVE ClassifyFrom(_, _, _)
ClassifyFrom(lines, i, inBlockComment) ==
    IF i > Len(lines) THEN <<>>
    ELSE LET c == ClassifyLine(inBlockComment, lines[i])
         IN  <<c.tag>> \o ClassifyFrom(lines, i + 1, c.inBlockComment)

\* A file counter that counts only the lines that are not blank as read.
FileCounterSkipsBlank(path, file) ==
    LET tags == ClassifyFrom(file.lines, 1, FALSE)
    IN  [path |-> path, language |-> file.language,
         codeLines |-> CountOf("Code", tags),
         commentLines |-> CountOf("Comment", tags),
         blankLines |-> CountOf("Blank", tags),
         totalLines |-> Len(file.lines) - CountOf("blank", file.lines)]

\* count(path, descriptor) -> FileRecord
FileCounter(path, file) ==
    LET tags == ClassifyFrom(file.lines, 1, FALSE)
    IN  [path |-> path, language |-> file.language,
         codeLines |-> CountOf("Code", tags),
         commentLines |-> CountOf("Comment", tags),
         blankLines |-> CountOf("Blank", tags),
         totalLines |-> Len(file.lines)]

NoRecord ==
    [path |-> 0, language |-> "", codeLines |-> 0, commentLines |-> 0,
     blankLines |-> 0, totalLines |-> 0]

ZeroStats ==
    [fileCount |-> 0, blankLines |-> 0, commentLines |-> 0, codeLines |-> 0, totalLines |-> 0]

\* A LanguageStats with a FileRecord merged into it.
Merged(stats, rec) ==
    [fileCount |-> stats.fileCount + 1,
     blankLines |-> stats.blankLines + rec.blankLines,
     commentLines |-> stats.commentLines + rec.commentLines,
     codeLines |-> stats.codeLines + rec.codeLines,
     totalLines |-> stats.totalLines + rec.totalLines]

PoolWorkers == 1..poolSize

\* A worker takes the next file from the queue and counts it.
Pull(w) ==
    /\ apc[w] = "idle"
    /\ queue # <<>>
    /\ held' = [held EXCEPT ![w] = FileCounter(Head(queue), files[Head(queue)])]
    /\ queue' = Tail(queue)
    /\ apc' = [apc EXCEPT ![w] = "counted"]
    /\ UNCHANGED <<files, poolSize, snap, aggMu, langStats, total>>
    /\ UNCHANGED <<logVars, callerVars, concVars, outputVars>>

\* Taking the lock without waiting for its holder.
AggLockNoWait(w) ==
    /\ apc[w] = "counted"
    /\ aggMu' = w
    /\ apc' = [apc EXCEPT ![w] = "locked"]
    /\ UNCHANGED <<files, poolSize, queue, held, snap, langStats, total>>
    /\ UNCHANGED <<logVars, callerVars, concVars, outputVars>>

\* The worker takes the aggregator's lock.
AggLock(w) ==
    /\ apc[w] = "counted"
    /\ aggMu = 0
    /\ aggMu' = w
    /\ apc' = [apc EXCEPT ![w] = "locked"]
    /\ UNCHANGED <<files, poolSize, queue, held, snap, langStats, total>>
    /\ UNCHANGED <<logVars, callerVars, concVars, outputVars>>

\* It reads the language's stats (created on the first file of the language)
\* and the grand total.
AggLoad(w) ==
    /\ apc[w] = "locked"
    /\ snap' = [snap EXCEPT ![w] =
                   [lang |-> IF held[w].language \in DOMAIN langStats
                                THEN langStats[held[w].language] ELSE ZeroStats,
                    total |-> total]]
    /\ apc' = [apc EXCEPT ![w] = "loaded"]
    /\ UNCHANGED <<files, poolSize, queue, held, aggMu, langStats, total>>
    /\ UNCHANGED <<logVars, callerVars, concVars, outputVars>>

\* It writes the language's stats with the record merged in.
AggStoreLanguage(w) ==
    /\ apc[w] = "loaded"
    /\ langStats' = [l \in DOMAIN langStats \cup {held[w].language} |->
                        IF l = held[w].language THEN Merged(snap[w].lang, held[w])
                        ELSE langStats[l]]
    /\ apc' = [apc EXCEPT ![w] = "storedLanguage"]
    /\ UNCHANGED <<files, poolSize, queue, held, snap, aggMu, total>>
    /\ UNCHANGED <<logVars, callerVars, concVars, outputVars>>

\* It writes the grand total with the record merged in.
AggStoreTotal(w) ==
    /\ apc[w] = "storedLanguage"
    /\ total' = Merged(snap[w].total, held[w])
    /\ apc' = [apc EXCEPT ![w] = "storedTotal"]
    /\ UNCHANGED <<files, poolSize, queue, held, snap, aggMu, langStats>>
    /\ UNCHANGED <<logVars, callerVars, concVars, outputVars>>

\* It releases the lock; the record is handed over.
AggUnlock(w) ==
    /\ apc[w] = "storedTotal"
    /\ aggMu' = 0
    /\ held' = [held EXCEPT ![w] = NoRecord]
    /\ apc' = [apc EXCEPT ![w] = "idle"]
    /\ UNCHANGED <<files, poolSize, queue, snap, langStats, total>>
    /\ UNCHANGED <<logVars, callerVars, concVars, outputVars>>

InitScan ==
    /\ files \in [1..NumFiles -> ScanFiles]
    /\ poolSize \in 1..MaxPoolSize
    /\ queue = [i \in 1..NumFiles |-> i]
    /\ apc = [w \in PoolWorkers |-> "idle"]
    /\ held = [w \in PoolWorkers |-> NoRecord]
    /\ snap = [w \in PoolWorkers |-> [lang |-> ZeroStats, total |-> ZeroStats]]
    /\ aggMu = 0
    /\ langStats = [l \in {} |-> ZeroStats]
    /\ total = ZeroStats
    /\ NewLogger(LogLevelInfo, "stdout")
    /\ CallerInit /\ ConcIdle /\ PrintIdle /\ SortIdle /\ FmtIdle

NextScan ==
    \/ \E w \in PoolWorkers : Pull(w)
    \/ \E w \in PoolWorkers : AggLock(w)
    \/ \E w \in PoolWorkers : AggLoad(w)
    \/ \E w \in PoolWorkers : AggStoreLanguage(w)
    \/ \E w \in PoolWorkers : AggStoreTotal(w)
    \/ \E w \in PoolWorkers : AggUnlock(w)

SpecScan == InitScan /\ [][NextScan]_vars

----------------------------------------------------------------------------
\* Claims about the logger.

\* C1 (as stated): after any sequence of LogFileError / LogDirectoryError
\* calls under any log level, GetWarnCount() + GetErrorCount() equals the
\* number of calls made.
C1_EveryFailureTallied ==
    warnCount + errorCount = failures

\* C1 (amended): the two tallies never exceed the number of failure reports and
\* miss at most the reports made while the level was above LogLevelWarn; with
\* no such report the sum equals the number of calls made.
C1_FailuresTalliedUpToWarn ==
    /\ warnCount + errorCount <= failures
    /\ warnCount + errorCount >= failures - failuresAbove
    /\ failuresAbove = 0 => warnCount + errorCount = failures

\* C1 witness: after a level change to LogLevelWarn, a permission failure and
\* another failure have both been tallied.
C1_Witness ==
    /\ level = LogLevelWarn
    /\ failures >= 2
    /\ failuresAbove = 0
    /\ warnCount >= 1
    /\ errorCount >= 1

\* What the program calls a permission failure: a permission-denied errno or
\* sentinel, bare or inside a *PathError, or a *PermissionError
\* ("PermissionError represents a permission denied error").
IsPermissionFailure(err) ==
    \/ err.type = "PermissionError"
    \/ err.cause \in {"ErrPermission", "EACCES", "EPERM"}

WarnPathOnly ==
    /\ errorCount' = errorCount
    /\ \A i \in 1..Len(written') : i > Len(written) => written'[i].via = "logger"

ErrorPathOnly ==
    /\ warnCount' = warnCount
    /\ \A i \in 1..Len(written') : i > Len(written) => written'[i].via = "errorLog"

\* C2: every LogFileError / LogDirectoryError call with a permission error
\* leaves errorCount unchanged and writes nothing to the error log; every call
\* with another error leaves warnCount unchanged and writes nothing to the
\* warning log.
C2_PermissionDownWeighted ==
    [][\A e \in ErrValues :
          (LogFileError(e) \/ LogDirectoryError(e)) =>
              IF IsPermissionFailure(e) THEN WarnPathOnly ELSE ErrorPathOnly]_vars

Wrote(tag, via, to) ==
    /\ Len(written') = Len(written) + 1
    /\ SubSeq(written', 1, Len(written)) = written
    /\ written'[Len(written')].tag = tag
    /\ written'[Len(written')].via = via
    /\ written'[Len(written')].to = to

Filtered(sev, tag, via, to) ==
    /\ level' = level
    /\ loggerOut' = loggerOut
    /\ IF level <= sev THEN Wrote(tag, via, to) ELSE written' = written
    /\ level = LogLevelSilent => written' = written

\* C7: a Debug / Info / Warn / Error call at severity s on a logger at level v
\* writes one message if and only if v <= s, and none at LogLevelSilent; the
\* level is the one given to the constructor or to the latest SetLevel; Debug,
\* Info, SetLevel and SetOutput leave errorCount and warnCount unchanged.
C7_LevelFiltering ==
    [][/\ \A t \in Texts :
            /\ Debug(t) => /\ Filtered(LogLevelDebug, "[DEBUG]", "logger", loggerOut)
                           /\ UNCHANGED <<errorCount, warnCount>>
            /\ Info(t) => /\ Filtered(LogLevelInfo, "[INFO]", "logger", loggerOut)
                          /\ UNCHANGED <<errorCount, warnCount>>
            /\ Warn(t) => Filtered(LogLevelWarn, "[WARN]", "logger", loggerOut)
            /\ Error(t) => Filtered(LogLevelError, "[ERROR]", "errorLog", ErrWriter)
       /\ \A v \in LogLevels :
            SetLevel(v) => level' = v /\ UNCHANGED <<errorCount, warnCount, written>>
       /\ \A w \in OutWriters :
            SetOutput(w) => UNCHANGED <<level, errorCount, warnCount, written>>]_vars

\* C7 witness: a warning was written and counted, the level was then raised
\* to LogLevelError, and the latest Warn call wrote nothing.
C7_Witness ==
    /\ lastCall = "Warn"
    /\ level = LogLevelError
    /\ warnCount = 1
    /\ Len(written) = 2
    /\ steps = 4

AllReturned == \A w \in Workers : todo[w] = <<>> /\ pc[w] = "idle"
InsideLock(w) == pc[w] \in {"locked", "load", "store", "print", "unlock"}

\* C3: with the level at or below LogLevelWarn, whatever the interleaving of
\* the workers' Warn and Error calls, once every call has returned errorCount
\* is the number of Error calls and warnCount the number of Warn calls; a
\* worker reads or writes level, errorCount and warnCount only while it holds
\* mu, and at most one worker is between Lock and Unlock.
C3_TalliesRaceFree ==
    /\ AllReturned => errorCount = issued["Error"] /\ warnCount = issued["Warn"]
    /\ \A w \in Workers : InsideLock(w) => mu = w
    /\ \A w1, w2 \in Workers : InsideLock(w1) /\ InsideLock(w2) => w1 = w2

\* C3 witness: two workers have each returned from a Warn call made
\* concurrently, and both calls were counted and written.
C3_Witness ==
    /\ AllReturned
    /\ issued["Warn"] = 2
    /\ warnCount = 2
    /\ errorCount = 0
    /\ Len(written) = 2

----------------------------------------------------------------------------
\* Claims about the output functions.

Min(a, b) == IF a < b THEN a ELSE b
IsEntry(line) == line.kind = "entry"
IsMore(line) == line.kind = "more"

\* C6: PrintErrors prints nothing for an empty list; otherwise its entries are
\* the first min(n, 10) errors in their original order, and it prints the
\* trailer '... and k more errors' exactly when n > 10, once, after the
\* entries, with k = n - 10.
C6_PrintErrorsCapped ==
    printCalled =>
        LET n == Len(errors)
            entries == SelectSeq(printed, IsEntry)
            mores == SelectSeq(printed, IsMore)
        IN  /\ n = 0 => printed = <<>>
            /\ Len(entries) = Min(n, 10)
            /\ \A i \in 1..Len(entries) : entries[i].text = <<"  - %v", errors[i]>>
            /\ Len(mores) = IF n > 10 THEN 1 ELSE 0
            /\ n > 10 => /\ mores[1].text = <<"  ... and %d more errors", n - 10>>
                         /\ IsMore(printed[12])
                         /\ \A i \in 2..11 : IsEntry(printed[i])

\* C6 witness: a list of 12 errors, its first two different, has been printed.
C6_Witness ==
    /\ printCalled
    /\ Len(errors) = 12
    /\ errors[1] # errors[2]
    /\ Len(printed) = 13

IsPermutationOfKeys(langs, stats) ==
    /\ Len(langs) = Cardinality(DOMAIN stats)
    /\ \A l \in DOMAIN stats : \E i \in DOMAIN langs : langs[i] = l
    /\ \A i \in DOMAIN langs : langs[i] \in DOMAIN stats

IsDescending(langs, stats) ==
    \A i \in 1..(Len(langs) - 1) : stats[langs[i]].CodeLines >= stats[langs[i + 1]].CodeLines

\* C8: the slice sortLanguagesByCode returns holds each key of the map exactly
\* once and nothing else, every adjacent pair (a, b) of it has
\* langStats[a].CodeLines >= langStats[b].CodeLines, and the map is unchanged.
C8_SortedByCodeDescending ==
    [][\A k \in Renderings :
          runs'[k] # runs[k] =>
              /\ sortStats' = sortStats
              /\ IsPermutationOfKeys(runs'[k].langs, sortStats)
              /\ IsDescending(runs'[k].langs, sortStats)]_vars

\* C8 witness: three languages with different code line counts were delivered
\* in ascending order and came out reversed.
C8_Witness ==
    /\ runs[1].done
    /\ Len(runs[1].order) = 3
    /\ sortStats[runs[1].order[1]].CodeLines < sortStats[runs[1].order[2]].CodeLines
    /\ sortStats[runs[1].order[2]].CodeLines < sortStats[runs[1].order[3]].CodeLines
    /\ runs[1].langs[1] = runs[1].order[3]
    /\ runs[1].langs[3] = runs[1].order[1]

\* C10: two renderings of equal langStats contents sort the languages into the
\* same sequence and so write the same rows, whatever order the map iteration
\* delivers the keys in.
C10_RenderedOrderDeterministic ==
    (runs[1].done /\ runs[2].done) =>
        /\ runs[1].langs = runs[2].langs
        /\ runs[1].rows = runs[2].rows

IsDigit(c) == \E d \in 1..10 : Digits[d] = c
DigitValue(c) == (CHOOSE d \in 1..10 : Digits[d] = c) - 1
NotComma(c) == c # ","

RECURSIVE DecimalValue(_)
DecimalValue(str) ==
    IF str = <<>> THEN 0
    ELSE 10 * DecimalValue(SubSeq(str, 1, Len(str) - 1)) + DigitValue(str[Len(str)])

CommaPositions(str) == {i \in DOMAIN str : str[i] = ","}

\* C9: for n >= 0, FormatNumber(n) without its commas is the decimal
\* representation of n; it neither starts nor ends with a comma; every comma is
\* followed by a group of exactly 3 digits; the first group has 1 to 3 digits;
\* for n < 1000 there is no comma.
C9_ThousandSeparators ==
    fmtCalled =>
        LET r == fmtResult
            plain == SelectSeq(r, NotComma)
            commas == CommaPositions(r)
        IN  /\ Len(plain) >= 1
            /\ \A i \in DOMAIN plain : IsDigit(plain[i])
            /\ Len(plain) > 1 => plain[1] # "0"
            /\ DecimalValue(plain) = fmtN
            /\ r[1] # ","
            /\ r[Len(r)] # ","
            /\ \A i \in commas :
                  /\ i + 3 <= Len(r)
                  /\ \A j \in (i + 1)..(i + 3) : IsDigit(r[j])
                  /\ i + 3 < Len(r) => r[i + 4] = ","
            /\ \E first \in 1..3 :
                  /\ \A j \in 1..first : IsDigit(r[j])
                  /\ first = Len(r) \/ r[first + 1] = ","
            /\ fmtN < 1000 => commas = {}

\* C9 witness: a number of seven digits has been formatted with two commas.
C9_Witness ==
    /\ fmtCalled
    /\ fmtN >= 1000000
    /\ Cardinality(CommaPositions(fmtResult)) = 2
    /\ Len(fmtResult) = 9

----------------------------------------------------------------------------
\* Claims about the scan.

\* Every worker has completed and the queue is drained.
Quiescent == queue = <<>> /\ \A w \in PoolWorkers : apc[w] = "idle"

FilesOf(l) == {i \in DOMAIN files : files[i].language = l}

\* The sum of one field over the FileRecords of a set of files.
RECURSIVE SumField(_, _)
SumField(field, paths) ==
    IF paths = {} THEN 0
    ELSE LET i == CHOOSE j \in paths : TRUE
         IN  FileCounter(i, files[i])[field] + SumField(field, paths \ {i})

LineFields == {"blankLines", "commentLines", "codeLines", "totalLines"}

IsSumOver(stats, paths) ==
    /\ stats.fileCount = Cardinality(paths)
    /\ \A f \in LineFields : stats[f] = SumField(f, paths)

RECURSIVE SumStats(_, _)
SumStats(field, ls) ==
    IF ls = {} THEN 0
    ELSE LET l == CHOOSE k \in ls : TRUE
         IN  langStats[l][field] + SumStats(field, ls \ {l})

\* C4: for every pool size and every interleaving, the snapshot read after all
\* workers have completed has, for every language, fileCount and the four line
\* counts equal to the sums over the FileRecords of that language (a language
\* without files has no stats), and the grand total equal to the sum over all
\* languages.
C4_AggregateIndependentOfScheduling ==
    Quiescent =>
        /\ DOMAIN langStats = {l \in ScanLanguages : FilesOf(l) # {}}
        /\ \A l \in DOMAIN langStats : IsSumOver(langStats[l], FilesOf(l))
        /\ \A f \in LineFields \cup {"fileCount"} : total[f] = SumStats(f, DOMAIN langStats)
        /\ IsSumOver(total, DOMAIN files)

\* C4 witness: two workers have merged two files of the same language with
\* lines of every kind.
C4_Witness ==
    /\ Quiescent
    /\ poolSize = 2
    /\ DOMAIN langStats = {"Go"}
    /\ langStats["Go"].fileCount = 2
    /\ langStats["Go"].codeLines = 2
    /\ langStats["Go"].commentLines = 5
    /\ langStats["Go"].blankLines = 2
    /\ total.totalLines = 9

LinesAddUp(r) == r.totalLines = r.blankLines + r.commentLines + r.codeLines

\* C5: in every reachable state of a scan, every FileRecord, every
\* per-language LanguageStats and the grand total has
\* totalLines = blankLines + commentLines + codeLines.
C5_TotalIsSumOfKinds ==
    /\ \A w \in PoolWorkers : LinesAddUp(held[w])
    /\ \A l \in DOMAIN langStats : LinesAddUp(langStats[l])
    /\ LinesAddUp(total)

\* C5 witness: between two merges: one worker has written the language's stats
\* but not yet the grand total while the other holds a counted record with
\* blank, comment and code lines.
C5_Witness ==
    /\ \E w \in PoolWorkers : apc[w] = "storedLanguage" /\ held[w].totalLines = 3
    /\ \E w \in PoolWorkers :
          /\ apc[w] = "counted"
          /\ held[w].blankLines = 1
          /\ held[w].commentLines = 5
          /\ held[w].codeLines = 0

====
